---- MODULE Spec2Model ----
(***************************************************************************)
(* arguable: construction of an ArgumentParser from a pattern string.      *)
(*                                                                         *)
(* Strings are sequences of one-character strings, so that indexing,       *)
(* slicing, find and split are computed as the Python code computes them.  *)
(* Helper operators that mirror Python builtins take 0-based indices.      *)
(***************************************************************************)
EXTENDS Integers, Sequences, FiniteSets, TLC

VARIABLES pattern, pc, gen, cur, emitted, actions, locals, err,
          call, stderr, ns, body, exits, leave

vars == <<pattern, pc, gen, cur, emitted, actions, locals, err,
          call, stderr, ns, body, exits, leave>>

\* what construction leaves alone: the call of parse_args and its result
use == <<call, stderr, ns, body, exits, leave>>

(***************************************************************************)
(* Bounds of the model.                                                    *)
(***************************************************************************)
MaxCluster == 5
MaxSuffixes == 2
MaxTokens == 2
MaxBody == 2
MaxUnits == 2
MaxInput == 1

(***************************************************************************)
(* Python string builtins on sequences of characters.                      *)
(***************************************************************************)
MinOf(S) == CHOOSE x \in S : \A y \in S : x <= y

At(s, i) == s[i + 1]

Slice(s, a, b) == SubSeq(s, a + 1, b)

Find(s, ch, start) ==
    LET hits == {j \in start..(Len(s) - 1) : At(s, j) = ch}
    IN  IF hits = {} THEN -1 ELSE MinOf(hits)

FindStr(s, sub) ==
    LET hits == {j \in 0..(Len(s) - Len(sub)) : Slice(s, j, j + Len(sub)) = sub}
    IN  IF hits = {} THEN -1 ELSE MinOf(hits)

StartsWith(s, pre) == Len(s) >= Len(pre) /\ SubSeq(s, 1, Len(pre)) = pre

EndsWith(s, suf) ==
    Len(s) >= Len(suf) /\ SubSeq(s, Len(s) - Len(suf) + 1, Len(s)) = suf

\* s.split(sep, maxsplit=1): <<s>> when sep does not occur
Split1(s, sep) ==
    LET j == FindStr(s, sep)
    IN  IF j = -1 THEN <<s>>
        ELSE <<Slice(s, 0, j), Slice(s, j + Len(sep), Len(s))>>

RStrip(s, ch) ==
    LET keep == {k \in 0..Len(s) : \A j \in (k + 1)..Len(s) : s[j] = ch}
    IN  SubSeq(s, 1, MinOf(keep))

LStrip(s, ch) ==
    LET drop == {k \in 0..Len(s) : \A j \in 1..k : s[j] = ch}
        k == CHOOSE x \in drop : \A y \in drop : y <= x
    IN  SubSeq(s, k + 1, Len(s))

Replace(s, a, b) == [j \in 1..Len(s) |-> IF s[j] = a THEN b ELSE s[j]]

RECURSIVE SplitFrom(_, _, _, _)
SplitFrom(s, j, word, acc) ==
    IF j > Len(s) THEN (IF word = <<>> THEN acc ELSE Append(acc, word))
    ELSE IF s[j] = " "
         THEN SplitFrom(s, j + 1, <<>>, IF word = <<>> THEN acc ELSE Append(acc, word))
         ELSE SplitFrom(s, j + 1, Append(word, s[j]), acc)

\* pattern.split(): the maximal runs of non-whitespace characters
Split(s) == SplitFrom(s, 1, <<>>, <<>>)

DigitVal ==
    ("0" :> 0) @@ ("1" :> 1) @@ ("2" :> 2) @@ ("3" :> 3) @@ ("4" :> 4) @@
    ("5" :> 5) @@ ("6" :> 6) @@ ("7" :> 7) @@ ("8" :> 8) @@ ("9" :> 9)

RECURSIVE DigitsValue(_)
DigitsValue(ds) ==
    IF ds = <<>> THEN 0
    ELSE 10 * DigitsValue(SubSeq(ds, 1, Len(ds) - 1)) + DigitVal[ds[Len(ds)]]

\* int(s): an optional sign followed by at least one decimal digit
IntOf(s) ==
    LET signed == Len(s) >= 1 /\ s[1] \in {"-", "+"}
        ds     == IF signed THEN Tail(s) ELSE s
        ok     == ds # <<>> /\ \A j \in 1..Len(ds) : ds[j] \in DOMAIN DigitVal
    IN  IF ~ok THEN [ok |-> FALSE, n |-> 0]
        ELSE [ok |-> TRUE,
              n  |-> IF signed /\ s[1] = "-" THEN 0 - DigitsValue(ds)
                     ELSE DigitsValue(ds)]

(***************************************************************************)
(* Exceptions and results.                                                 *)
(***************************************************************************)
NoError == [type |-> "None", by |-> "", arg |-> <<>>]

Raise(type, by, arg) == [type |-> type, by |-> by, arg |-> arg]

\* values of nargs: None, "?", "*", "+" or an integer
NargsNone == [kind |-> "None", n |-> 0]
NargsOpt == [kind |-> "?", n |-> 0]
NargsStar == [kind |-> "*", n |-> 0]
NargsPlus == [kind |-> "+", n |-> 0]
NargsInt(n) == [kind |-> "int", n |-> n]

(***************************************************************************)
(* yield_tokens: the generator, one resumption at a time.                  *)
(***************************************************************************)
IsShortToken(token) ==
    Len(token) >= 2 /\ At(token, 0) = "-" /\ At(token, 1) # "-"

\* ClusterStep that does not split a combined flag token
ClusterStepUnsplit(token, ti, i) ==
    [kind |-> "yield", tok |-> token, ti |-> ti, i |-> Len(token), err |-> NoError]

\* ClusterStep without the branch for a repeated flag
ClusterStepNoRepeat(token, ti, i) ==
    [kind |-> "yield", tok |-> <<"-", At(token, i)>>, ti |-> ti, i |-> i + 1,
     err |-> NoError]

\* ClusterStep that does not test the result of find
ClusterStepNoFindTest(token, ti, i) ==
    IF i < Len(token) - 1 /\ At(token, i + 1) = "["
    THEN [kind |-> "yield", tok |-> <<"-">> \o Slice(token, i, Len(token)),
          ti |-> ti, i |-> Len(token), err |-> NoError]
    ELSE [kind |-> "yield", tok |-> <<"-", At(token, i)>>, ti |-> ti, i |-> i + 1,
          err |-> NoError]

\* one iteration of the while loop over a combined flag token, from index i
ClusterStep(token, ti, i) ==
    IF i < Len(token) - 1
    THEN IF At(token, i + 1) = "["
            \/ (/\ At(token, i) = At(token, i + 1)
                /\ i < Len(token) - 2
                /\ At(token, i + 2) = "[")
         THEN LET end == Find(token, "]", i + 2)
              IN  IF end = -1
                  THEN [kind |-> "raise", tok |-> <<>>, ti |-> ti, i |-> i,
                        err |-> Raise("SyntaxError", "yield_tokens", token)]
                  ELSE [kind |-> "yield", tok |-> <<"-">> \o Slice(token, i, end + 1),
                        ti |-> ti, i |-> end + 1, err |-> NoError]
         ELSE IF At(token, i) = At(token, i + 1)
         THEN [kind |-> "yield", tok |-> <<"-">> \o Slice(token, i, i + 2),
               ti |-> ti, i |-> i + 2, err |-> NoError]
         ELSE [kind |-> "yield", tok |-> <<"-", At(token, i)>>,
               ti |-> ti, i |-> i + 1, err |-> NoError]
    ELSE [kind |-> "yield", tok |-> <<"-", At(token, i)>>,
          ti |-> ti, i |-> i + 1, err |-> NoError]

\* the body of the for loop entered for the k-th source token
EnterToken(ts, k) ==
    IF k > Len(ts)
    THEN [kind |-> "stop", tok |-> <<>>, ti |-> k, i |-> 0, err |-> NoError]
    ELSE IF IsShortToken(ts[k])
    THEN ClusterStep(ts[k], k, 1)
    ELSE [kind |-> "yield", tok |-> ts[k], ti |-> k, i |-> 0, err |-> NoError]

\* next(generator): run from the suspended position to the next yield
yield_tokens(ts, ti, i) ==
    IF ti = 0 THEN EnterToken(ts, 1)
    ELSE IF IsShortToken(ts[ti]) /\ i < Len(ts[ti])
    THEN ClusterStep(ts[ti], ti, i)
    ELSE EnterToken(ts, ti + 1)

(***************************************************************************)
(* The token helpers.                                                      *)
(***************************************************************************)
determine_long_name(token) ==
    LET parts == Split1(token, <<"[">>)
    IN  IF Len(parts) = 1 THEN [token |-> token, long_name |-> <<>>]
        ELSE [token |-> parts[1], long_name |-> RStrip(parts[2], "]")]

\* determine_nargs that leaves the optional marker on the token
determine_nargs_keeps_marker(token) ==
    LET parts == Split1(token, <<".", ".", ".">>)
    IN  IF Len(parts) = 1
        THEN [token |-> token,
              nargs |-> IF EndsWith(token, <<"?">>) THEN NargsOpt ELSE NargsNone,
              err |-> NoError]
        ELSE LET end == parts[2]
             IN  IF end = <<"?">>
                 THEN [token |-> parts[1], nargs |-> NargsStar, err |-> NoError]
                 ELSE IF end = <<>>
                 THEN [token |-> parts[1], nargs |-> NargsPlus, err |-> NoError]
                 ELSE IF IntOf(end).ok
                 THEN [token |-> parts[1], nargs |-> NargsInt(IntOf(end).n),
                       err |-> NoError]
                 ELSE [token |-> parts[1], nargs |-> NargsNone,
                       err |-> Raise("SyntaxError", "determine_nargs", end)]

determine_nargs(token) ==
    LET parts == Split1(token, <<".", ".", ".">>)
    IN  IF Len(parts) = 1
        THEN IF EndsWith(token, <<"?">>)
             THEN [token |-> Slice(token, 0, Len(token) - 1), nargs |-> NargsOpt,
                   err |-> NoError]
             ELSE [token |-> token, nargs |-> NargsNone, err |-> NoError]
        ELSE LET end == parts[2]
             IN  IF end = <<"?">>
                 THEN [token |-> parts[1], nargs |-> NargsStar, err |-> NoError]
                 ELSE IF end = <<>>
                 THEN [token |-> parts[1], nargs |-> NargsPlus, err |-> NoError]
                 ELSE IF IntOf(end).ok
                 THEN [token |-> parts[1], nargs |-> NargsInt(IntOf(end).n),
                       err |-> NoError]
                 ELSE [token |-> parts[1], nargs |-> NargsNone,
                       err |-> Raise("SyntaxError", "determine_nargs", end)]

\* type_map that also knows "string"
type_map_with_string ==
    (<<"i", "n", "t">> :> "int") @@
    (<<"b", "o", "o", "l">> :> "bool") @@
    (<<"s", "t", "r">> :> "str") @@
    (<<"s", "t", "r", "i", "n", "g">> :> "str") @@
    (<<"f", "l", "o", "a", "t">> :> "float") @@
    (<<"r", "f", "i", "l", "e">> :> "rfile") @@
    (<<"w", "f", "i", "l", "e">> :> "wfile")

type_map ==
    (<<"i", "n", "t">> :> "int") @@
    (<<"b", "o", "o", "l">> :> "bool") @@
    (<<"s", "t", "r">> :> "str") @@
    (<<"f", "l", "o", "a", "t">> :> "float") @@
    (<<"r", "f", "i", "l", "e">> :> "rfile") @@
    (<<"w", "f", "i", "l", "e">> :> "wfile")

determine_type(token) ==
    LET parts == Split1(token, <<":">>)
    IN  IF Len(parts) = 1
        THEN [token |-> token, typ |-> "None", err |-> NoError]
        ELSE IF parts[2] \in DOMAIN type_map
        THEN [token |-> parts[1], typ |-> type_map[parts[2]], err |-> NoError]
        ELSE [token |-> parts[1], typ |-> "None",
              err |-> Raise("SyntaxError", "determine_type", parts[2])]

(***************************************************************************)
(* argparse.ArgumentParser, as far as construction uses it: the list of    *)
(* registered actions and add_argument's checks.                           *)
(***************************************************************************)
HelpAction ==
    [opts |-> << <<"-", "h">>, <<"-", "-", "h", "e", "l", "p">> >>,
     dest |-> <<"h", "e", "l", "p">>, action |-> "help",
     nargs |-> NargsInt(0), type |-> "None", default |-> "SUPPRESS",
     required |-> FALSE]

OptionStrings(reg) == {reg[k].opts[j] : k \in DOMAIN reg, j \in 1..2} \ {<<>>}

IsLongOption(o) == Len(o) > 1 /\ o[2] = "-"

\* the dest _get_optional_kwargs infers from the option strings
OptionalDest(names) ==
    LET longs == {j \in 1..Len(names) : IsLongOption(names[j])}
        first == IF longs = {} THEN names[1] ELSE names[MinOf(longs)]
    IN  LStrip(first, "-")

\* add_argument(*names, action=action, nargs=nargs, type=typ)
add_argument(reg, names, action, nargs, typ) ==
    LET same   == [err |-> NoError, actions |-> reg]
        fail(e) == [err |-> e, actions |-> reg]
    IN  IF Len(names) = 1 /\ names[1] = <<>>
        THEN fail(Raise("IndexError", "add_argument", names[1]))
        ELSE LET positional == Len(names) = 1 /\ names[1][1] # "-"
                 dest == IF positional THEN names[1] ELSE OptionalDest(names)
                 opts == IF positional THEN << <<>>, <<>> >>
                         ELSE IF Len(names) = 1 THEN <<names[1], <<>> >>
                         ELSE names
                 act  == [opts     |-> opts,
                          dest     |-> Replace(dest, "-", "_"),
                          action   |-> action,
                          nargs    |-> IF action = "store" THEN nargs ELSE NargsInt(0),
                          type     |-> typ,
                          default  |-> IF action = "store_true" THEN "False"
                                       ELSE IF action = "count" THEN "0" ELSE "None",
                          required |-> positional /\ nargs # NargsOpt]
             IN  IF ~positional /\ dest = <<>>
                 THEN fail(Raise("ValueError", "add_argument", names[Len(names)]))
                 ELSE IF action = "store" /\ nargs = NargsInt(0)
                 THEN fail(Raise("ValueError", "add_argument", names[1]))
                 ELSE IF \E j \in 1..2 : opts[j] # <<>> /\ opts[j] \in OptionStrings(reg)
                 THEN fail(Raise("ArgumentError", "add_argument", names[1]))
                 ELSE [err |-> NoError, actions |-> Append(reg, act)]

(***************************************************************************)
(* ArgumentParser._add_argument_from_token                                 *)
(***************************************************************************)
\* the handler's local variables when it returns or raises: token1 is token as
\* rebound by determine_nargs, token as it was last rebound
NoLocals ==
    [branch |-> "", token1 |-> <<>>, token |-> <<>>, long_name |-> <<>>,
     nargs |-> NargsNone, typ |-> "None"]

\* AddShortFlag that tests the length before the alias is taken off
AddShortFlagLengthFirst(reg, token0) ==
    LET ln      == determine_long_name(token0)
        repeat  == Len(token0) = 3
        token   == IF repeat THEN Slice(ln.token, 0, Len(ln.token) - 1) ELSE ln.token
        action  == IF repeat THEN "count" ELSE "store_true"
        names   == IF ln.long_name # <<>>
                   THEN <<token, <<"-", "-">> \o ln.long_name>>
                   ELSE <<token>>
        r       == add_argument(reg, names, action, NargsNone, "None")
    IN  [err |-> r.err, actions |-> r.actions,
         locals |-> [NoLocals EXCEPT !.branch = "short", !.token = token,
                                     !.long_name = ln.long_name]]

AddShortFlag(reg, token0) ==
    LET ln      == determine_long_name(token0)
        repeat  == Len(ln.token) = 3
        token   == IF repeat THEN Slice(ln.token, 0, Len(ln.token) - 1) ELSE ln.token
        action  == IF repeat THEN "count" ELSE "store_true"
        names   == IF ln.long_name # <<>>
                   THEN <<token, <<"-", "-">> \o ln.long_name>>
                   ELSE <<token>>
        r       == add_argument(reg, names, action, NargsNone, "None")
    IN  [err |-> r.err, actions |-> r.actions,
         locals |-> [NoLocals EXCEPT !.branch = "short", !.token = token,
                                     !.long_name = ln.long_name]]

\* AddValueToken that takes the type suffix off before the arity suffix
AddValueTokenTypeFirst(reg, token0) ==
    LET ty == determine_type(token0)
        na == determine_nargs(ty.token)
    IN  IF ty.err # NoError
        THEN [err |-> ty.err, actions |-> reg,
              locals |-> [NoLocals EXCEPT !.branch = "value", !.token = token0]]
        ELSE IF na.err # NoError
        THEN [err |-> na.err, actions |-> reg,
              locals |-> [NoLocals EXCEPT !.branch = "value", !.token = ty.token,
                                          !.typ = ty.typ]]
        ELSE LET flag == /\ StartsWith(na.token, <<"-", "-">>)
                         /\ (na.nargs = NargsNone \/ na.nargs = NargsOpt)
                         /\ ty.typ = "None"
                 r == IF flag
                      THEN add_argument(reg, <<na.token>>, "store_true", NargsNone, "None")
                      ELSE add_argument(reg, <<na.token>>, "store", na.nargs, ty.typ)
             IN  [err |-> r.err, actions |-> r.actions,
                  locals |-> [NoLocals EXCEPT !.branch = "value", !.token1 = na.token,
                                              !.token = na.token, !.nargs = na.nargs,
                                              !.typ = ty.typ]]

\* AddValueToken whose test for a boolean long flag ignores the type
AddValueTokenFlagIgnoresType(reg, token0) ==
    LET na == determine_nargs(token0)
        ty == determine_type(na.token)
    IN  IF na.err # NoError
        THEN [err |-> na.err, actions |-> reg,
              locals |-> [NoLocals EXCEPT !.branch = "value", !.token = token0]]
        ELSE IF ty.err # NoError
        THEN [err |-> ty.err, actions |-> reg,
              locals |-> [NoLocals EXCEPT !.branch = "value", !.token1 = na.token,
                                          !.token = na.token, !.nargs = na.nargs]]
        ELSE LET flag == /\ StartsWith(ty.token, <<"-", "-">>)
                         /\ (na.nargs = NargsNone \/ na.nargs = NargsOpt)
                 r == IF flag
                      THEN add_argument(reg, <<ty.token>>, "store_true", NargsNone, "None")
                      ELSE add_argument(reg, <<ty.token>>, "store", na.nargs, ty.typ)
             IN  [err |-> r.err, actions |-> r.actions,
                  locals |-> [NoLocals EXCEPT !.branch = "value", !.token1 = na.token,
                                              !.token = ty.token, !.nargs = na.nargs,
                                              !.typ = ty.typ]]

AddValueToken(reg, token0) ==
    LET na == determine_nargs(token0)
        ty == determine_type(na.token)
    IN  IF na.err # NoError
        THEN [err |-> na.err, actions |-> reg,
              locals |-> [NoLocals EXCEPT !.branch = "value", !.token = token0]]
        ELSE IF ty.err # NoError
        THEN [err |-> ty.err, actions |-> reg,
              locals |-> [NoLocals EXCEPT !.branch = "value", !.token1 = na.token,
                                          !.token = na.token, !.nargs = na.nargs]]
        ELSE LET flag == /\ StartsWith(ty.token, <<"-", "-">>)
                         /\ (na.nargs = NargsNone \/ na.nargs = NargsOpt)
                         /\ ty.typ = "None"
                 r == IF flag
                      THEN add_argument(reg, <<ty.token>>, "store_true", NargsNone, "None")
                      ELSE add_argument(reg, <<ty.token>>, "store", na.nargs, ty.typ)
             IN  [err |-> r.err, actions |-> r.actions,
                  locals |-> [NoLocals EXCEPT !.branch = "value", !.token1 = na.token,
                                              !.token = ty.token, !.nargs = na.nargs,
                                              !.typ = ty.typ]]

add_argument_from_token(reg, token) ==
    IF IsShortToken(token) THEN AddShortFlag(reg, token) ELSE AddValueToken(reg, token)

(***************************************************************************)
(* ArgumentParser.parse_args and suppress_stderr.                          *)
(*                                                                         *)
(* args is "None" or "given", exit_on_error is "None", "True" or "False".  *)
(* The matching itself is argparse's: for the input it is given the engine *)
(* "returns" a namespace or raises "SystemExit".  sys.stderr is the stream *)
(* the process installed ("installed") or the buffer of suppress_stderr    *)
(* ("StringIO").                                                           *)
(***************************************************************************)
\* exit_on_error taken from args alone
exit_on_error_from_args(args, exit_on_error) == args = "None"

\* the local exit_on_error once its default is filled in
exit_on_error_of(args, exit_on_error) ==
    IF exit_on_error = "None" THEN args = "None" ELSE exit_on_error = "True"

\* sys.stderr after the with block: the generator is resumed after its yield
\* when the block ends normally; an exception of the block is thrown into the
\* generator at the yield, where nothing handles it
suppress_stderr(old_stderr, block_raises) ==
    IF block_raises THEN "StringIO" ELSE old_stderr

parse_args(args, exit_on_error, engine, old_stderr) ==
    IF exit_on_error_of(args, exit_on_error)
    THEN [outcome |-> engine, stderr |-> old_stderr]
    ELSE [outcome |-> IF engine = "SystemExit" THEN "ValueError" ELSE engine,
          stderr  |-> suppress_stderr(old_stderr, engine = "SystemExit")]

(***************************************************************************)
(* Namespace: the attributes in the order of __dict__, each a name and a   *)
(* value.  A value is plain (no __exit__), a file the engine opened (its   *)
(* __exit__ closes it and returns None) or a context manager whose         *)
(* __exit__ returns True, returns False or raises.                         *)
(***************************************************************************)
Plain == [kind |-> "plain", id |-> 0, exit |-> "absent"]

File(k) == [kind |-> "file", id |-> k, exit |-> "None"]

\* the values the engine can store for the k-th action
ValuesOf(a, k) ==
    IF a.action = "store" /\ a.type \in {"rfile", "wfile"}
    THEN IF a.nargs = NargsNone THEN {File(k)}
         ELSE IF a.nargs = NargsOpt THEN {File(k), Plain}
         ELSE {Plain}
    ELSE {Plain}

\* the namespaces the engine can return: one attribute for each dest, in the
\* order of the actions
RECURSIVE EngineNamespaces(_, _)
EngineNamespaces(reg, k) ==
    IF k > Len(reg) THEN {<<>>}
    ELSE LET a    == reg[k]
             rest == EngineNamespaces(reg, k + 1)
             vals == UNION {ValuesOf(reg[l], l) : l \in {l \in k..Len(reg) : reg[l].dest = a.dest}}
         IN  IF a.default = "SUPPRESS" \/ \E j \in 1..(k - 1) : reg[j].dest = a.dest
             THEN rest
             ELSE {<<[name |-> a.dest, val |-> v]>> \o r : v \in vals, r \in rest}

\* the attributes the with block sets, named y, yy, ...
RECURSIVE SetAttrs(_, _)
SetAttrs(vals, name) ==
    IF vals = <<>> THEN <<>>
    ELSE <<[name |-> name, val |-> Head(vals)]>> \o SetAttrs(Tail(vals), name \o <<"y">>)

\* Namespace.__exit__(*args) from the k-th attribute on: the calls of __exit__
\* it makes, whether one of them raised, and ret
RECURSIVE namespace_exit(_, _, _, _, _)
namespace_exit(slots, k, args, calls, ret) ==
    IF k > Len(slots) THEN [calls |-> calls, ret |-> ret, raised |-> FALSE]
    ELSE LET val == slots[k].val
         IN  IF val.exit = "absent"
             THEN namespace_exit(slots, k + 1, args, calls, ret)
             ELSE LET made == Append(calls, [val |-> val, args |-> args])
                  IN  IF val.exit = "raise"
                      THEN [calls |-> made, ret |-> ret, raised |-> TRUE]
                      ELSE namespace_exit(slots, k + 1, args, made,
                                          ret \/ val.exit = "True")

(***************************************************************************)
(* The constructor as a function of the pattern, and the engine's matching *)
(* for a parser of flags only: the input is a list of option strings.      *)
(* Values are booleans and integers, True + 1 being 2 as in Python.        *)
(***************************************************************************)
RECURSIVE Compile(_, _, _, _)
Compile(ts, ti, i, reg) ==
    LET r == yield_tokens(ts, ti, i)
    IN  IF r.kind = "stop" THEN [err |-> NoError, actions |-> reg]
        ELSE IF r.kind = "raise" THEN [err |-> r.err, actions |-> reg]
        ELSE LET a == add_argument_from_token(reg, r.tok)
             IN  IF a.err # NoError
                 THEN [err |-> a.err, actions |-> a.actions]
                 ELSE Compile(ts, r.ti, r.i, a.actions)

ArgumentParser(p) == Compile(Split(p), 0, 0, <<HelpAction>>)

BoolValue(b) == [type |-> "bool", n |-> IF b THEN 1 ELSE 0]

IntValue(n) == [type |-> "int", n |-> n]

DefaultValue(a) ==
    IF a.default = "False" THEN BoolValue(FALSE)
    ELSE IF a.default = "0" THEN IntValue(0)
    ELSE [type |-> "None", n |-> 0]

\* the namespace before any argument is consumed: each dest gets the default
\* of the first action that has it
Defaults(reg) ==
    LET named == {k \in 1..Len(reg) : reg[k].default # "SUPPRESS"}
    IN  [d \in {reg[k].dest : k \in named} |->
            DefaultValue(reg[MinOf({k \in named : reg[k].dest = d})])]

\* the action an option string selects takes its turn on the namespace
Consume(reg, vals, o) ==
    LET a == reg[CHOOSE k \in 1..Len(reg) : o \in {reg[k].opts[1], reg[k].opts[2]}]
    IN  IF a.action = "store_true" THEN [vals EXCEPT ![a.dest] = BoolValue(TRUE)]
        ELSE IF a.action = "count"
        THEN [vals EXCEPT ![a.dest] = IntValue(IF @.type = "None" THEN 1 ELSE @.n + 1)]
        ELSE vals

RECURSIVE MatchFrom(_, _, _)
MatchFrom(reg, vals, input) ==
    IF input = <<>> THEN vals
    ELSE MatchFrom(reg, Consume(reg, vals, Head(input)), Tail(input))

Match(reg, input) == MatchFrom(reg, Defaults(reg), input)

(***************************************************************************)
(* Patterns the constructor is given.                                      *)
(***************************************************************************)
RECURSIVE Concat(_)
Concat(ss) == IF ss = <<>> THEN <<>> ELSE Head(ss) \o Concat(Tail(ss))

RECURSIVE JoinSp(_)
JoinSp(ss) ==
    IF ss = <<>> THEN <<>>
    ELSE IF Len(ss) = 1 THEN ss[1]
    ELSE ss[1] \o <<" ">> \o JoinSp(Tail(ss))

SeqsUpTo(S, lo, hi) == UNION {[1..k -> S] : k \in lo..hi}

Letters == {"a", "b", "c"}

ClusterChars == Letters \cup {"[", "]"}

\* combined short-flag tokens: a dash and up to MaxCluster further characters
Clusters == {<<"-">> \o s : s \in SeqsUpTo(ClusterChars, 1, MaxCluster)}

TypeNames ==
    DOMAIN type_map \cup {<<"s", "t", "r", "i", "n", "g">>, <<"z", "z">>}

AritySuffixes ==
    {<<".", ".", ".">>, <<"?">>, <<".", ".", ".", "0">>, <<".", ".", ".", "2">>,
     <<".", ".", ".", "-", "2">>, <<".", ".", ".", "+", "2">>}

Suffixes == AritySuffixes \cup {<<":">> \o t : t \in TypeNames}

\* long options and positionals: a name, up to MaxSuffixes suffixes and an
\* optional marker
ValueTokens ==
    {pre \o <<"x">> \o Concat(sfx) \o opt :
        pre \in {<<>>, <<"-", "-">>},
        sfx \in SeqsUpTo(Suffixes, 0, MaxSuffixes),
        opt \in {<<>>, <<"?">>}}

\* the same with no name at all
NamelessTokens ==
    {pre \o sfx : pre \in {<<>>, <<"-", "-">>}, sfx \in Suffixes \cup {<<>>}}

\* tokens combined into patterns of several tokens
CoreTokens ==
    {<<>>, <<"-", "a">>, <<"-", "a", "a">>, <<"-", "a", "b">>,
     <<"-", "a", "[", "x", "]">>, <<"-", "b", "[", "a", "]">>, <<"-", "b", "[">>,
     <<"x">>, <<"a">>, <<"x", "?">>, <<"-", "-", "x">>, <<"-", "-", "a">>,
     <<"x", ".", ".", ".", "2">>}

\* the units of a cluster: a letter, single or doubled, and maybe an alias
Aliases == {<<c>> : c \in Letters \cup {"x"}}

Units ==
    {l \o al : l \in {<<c>> : c \in Letters} \cup {<<c, c>> : c \in Letters},
               al \in {<<>>} \cup {<<"[">> \o a \o <<"]">> : a \in Aliases}}

\* clusters of up to MaxUnits units over pairwise distinct letters
UnitClusters ==
    {<<"-">> \o Concat(us) : us \in
        {us \in SeqsUpTo(Units, 1, MaxUnits) :
            \A j, l \in 1..Len(us) : j # l => us[j][1] # us[l][1]}}

Patterns ==
    Clusters \cup UnitClusters \cup ValueTokens \cup NamelessTokens
        \cup {JoinSp(ts) : ts \in SeqsUpTo(CoreTokens, 2, MaxTokens)}

(***************************************************************************)
(* What the caller does with the parser: the call of parse_args and the    *)
(* values the with block stores in the result.                             *)
(***************************************************************************)
Calls ==
    [args : {"None", "given"}, exit_on_error : {"None", "True", "False"},
     engine : {"unset"}]

\* parse_args(pattern, args) as the tests call it
TestCall == [args |-> "given", exit_on_error |-> "None", engine |-> "unset"]

Managers ==
    [kind : {"manager"}, id : 1..MaxBody, exit : {"True", "False", "raise"}]

\* one object has one behaviour
Bodies ==
    {b \in SeqsUpTo(Managers \cup {Plain}, 0, MaxBody) :
        \A j, l \in 1..Len(b) : b[j].id = b[l].id => b[j] = b[l]}

\* args.y = MyContextManager()
TestBody == <<[kind |-> "manager", id |-> 1, exit |-> "False"]>>

UsePatterns ==
    {<<"x">>, <<"x", ":", "r", "f", "i", "l", "e">>,
     <<"x", ":", "r", "f", "i", "l", "e", "?">>}

Inputs ==
    (Patterns \X {TestCall} \X {TestBody}) \cup (UsePatterns \X Calls \X Bodies)

NoLeave == [exc |-> "unset", signal |-> "unset"]

(***************************************************************************)
(* ArgumentParser.__init__(pattern)                                        *)
(***************************************************************************)
Init ==
    /\ \E in \in Inputs :
        /\ pattern = in[1]
        /\ call = in[2]
        /\ body = in[3]
    /\ pc = "new"
    /\ gen = [ts |-> <<>>, ti |-> 0, i |-> 0]
    /\ cur = <<>>
    /\ emitted = <<>>
    /\ actions = <<>>
    /\ locals = NoLocals
    /\ err = NoError
    /\ stderr = "installed"
    /\ ns = <<>>
    /\ exits = <<>>
    /\ leave = NoLeave

\* super().__init__(): the engine registers its help action
Construct ==
    /\ pc = "new"
    /\ actions' = <<HelpAction>>
    /\ pc' = "loop"
    /\ UNCHANGED <<pattern, gen, cur, emitted, locals, err, use>>

\* the for loop asks the generator for its next token
NextToken ==
    /\ pc = "loop"
    /\ LET ts == IF gen.ti = 0 THEN Split(pattern) ELSE gen.ts
           r  == yield_tokens(ts, gen.ti, gen.i)
       IN  /\ gen' = [ts |-> ts, ti |-> r.ti, i |-> r.i]
           /\ cur' = r.tok
           /\ emitted' = IF r.kind = "yield"
                         THEN Append(emitted, [src |-> r.ti, tok |-> r.tok])
                         ELSE emitted
           /\ err' = r.err
           /\ pc' = IF r.kind = "yield" THEN "add"
                    ELSE IF r.kind = "stop" THEN "done" ELSE "failed"
    /\ UNCHANGED <<pattern, actions, locals, use>>

\* the loop body: self._add_argument_from_token(token)
AddArgument ==
    /\ pc = "add"
    /\ LET r == add_argument_from_token(actions, cur)
       IN  /\ actions' = r.actions
           /\ locals' = r.locals
           /\ err' = r.err
           /\ pc' = IF r.err = NoError THEN "loop" ELSE "failed"
    /\ UNCHANGED <<pattern, gen, cur, emitted, use>>

build == <<pattern, gen, cur, emitted, actions, locals>>

\* parser.parse_args(args, exit_on_error=...): the result, the exception and
\* sys.stderr as the call leaves them
ParseArgs ==
    /\ pc = "done"
    /\ \E engine \in {"returns", "SystemExit"}, n \in EngineNamespaces(actions, 1) :
        LET r == parse_args(call.args, call.exit_on_error, engine, stderr)
        IN  /\ call' = [call EXCEPT !.engine = engine]
            /\ stderr' = r.stderr
            /\ ns' = IF r.outcome = "returns" THEN n ELSE <<>>
            /\ err' = IF r.outcome = "returns" THEN NoError
                      ELSE Raise(r.outcome, "parse_args", <<>>)
            /\ pc' = IF r.outcome = "returns" THEN "returned"
                     ELSE IF r.outcome = "SystemExit" THEN "exited" ELSE "raised"
    /\ UNCHANGED <<build, body, exits, leave>>

\* with args: Namespace.__enter__ returns self
Enter ==
    /\ pc = "returned"
    /\ pc' = "entered"
    /\ UNCHANGED <<build, err, use>>

\* the with block stores its values and ends, normally or with an exception
Block ==
    /\ pc = "entered"
    /\ \E exc \in {"None", "KeyError"} :
        leave' = [leave EXCEPT !.exc = exc]
    /\ ns' = ns \o SetAttrs(body, <<"y">>)
    /\ pc' = "leaving"
    /\ UNCHANGED <<build, err, call, stderr, body, exits>>

\* Namespace.__exit__(*args)
NamespaceExit ==
    /\ pc = "leaving"
    /\ LET r == namespace_exit(ns, 1, leave.exc, <<>>, FALSE)
       IN  /\ exits' = r.calls
           /\ leave' = [leave EXCEPT !.signal = IF r.raised THEN "raised"
                                                ELSE IF r.ret THEN "True" ELSE "False"]
           /\ err' = IF r.raised
                     THEN Raise("OSError", "__exit__", <<>>)
                     ELSE err
           /\ pc' = IF r.raised THEN "broken" ELSE "closed"
    /\ UNCHANGED <<build, call, stderr, ns, body>>

Next ==
    \/ Construct \/ NextToken \/ AddArgument
    \/ ParseArgs \/ Enter \/ Block \/ NamespaceExit

Spec == Init /\ [][Next]_vars

(***************************************************************************)
(* Vocabulary of the properties.                                           *)
(***************************************************************************)
IsLetter(c) == c \in Letters \cup {"x"}

\* the generator has yielded everything the k-th source token yields
FinishedToken(k) ==
    \/ gen.ti > k
    \/ /\ gen.ti = k
       /\ IsShortToken(gen.ts[k]) => gen.i >= Len(gen.ts[k])

\* the atomic tokens yielded from the k-th source token, in order
EmittedFrom(k) ==
    LET sel == SelectSeq(emitted, LAMBDA e : e.src = k)
    IN  [j \in 1..Len(sel) |-> sel[j].tok]

IsPrefix(s, t) == Len(s) <= Len(t) /\ SubSeq(t, 1, Len(s)) = s

\* a dash followed by letters only
LetterCluster(t) ==
    Len(t) >= 2 /\ t[1] = "-" /\ \A j \in 2..Len(t) : IsLetter(t[j])

\* a dash followed by n >= 1 pairwise distinct letters
DistinctLetterCluster(t) ==
    LetterCluster(t) /\ \A j, l \in 2..Len(t) : j # l => t[j] # t[l]

OneFlagPerLetter(t) == [j \in 1..(Len(t) - 1) |-> <<"-", t[j + 1]>>]

PassesThrough(t) == StartsWith(t, <<"-", "-">>) \/ t[1] # "-"

\* C1: a source token that is a dash and n pairwise distinct letters yields
\* exactly the n tokens dash+letter, in order (itself when n = 1); a token
\* starting with "--" or not starting with "-" is yielded once, unchanged.
C1_SplitsDistinctLetters ==
    \A k \in 1..Len(gen.ts) :
        /\ DistinctLetterCluster(gen.ts[k]) =>
              /\ IsPrefix(EmittedFrom(k), OneFlagPerLetter(gen.ts[k]))
              /\ FinishedToken(k) => EmittedFrom(k) = OneFlagPerLetter(gen.ts[k])
        /\ PassesThrough(gen.ts[k]) =>
              /\ IsPrefix(EmittedFrom(k), <<gen.ts[k]>>)
              /\ FinishedToken(k) => EmittedFrom(k) = <<gen.ts[k]>>

C1_Witness ==
    /\ pc = "done"
    /\ Len(gen.ts) = 1
    /\ DistinctLetterCluster(gen.ts[1])
    /\ Len(gen.ts[1]) = 4
    /\ Len(emitted) = 3

\* the occurrences of each letter of a letter cluster are adjacent
ContiguousLetters(t) ==
    /\ LetterCluster(t)
    /\ \A j, l \in 2..Len(t) :
          (j < l /\ t[j] = t[l]) => \A m \in j..l : t[m] = t[j]

Occurrences(t, c) == Cardinality({j \in 2..Len(t) : t[j] = c})

\* no two of the tokens are for the same flag letter
DistinctFlagLetters(toks) ==
    \A j, l \in 1..Len(toks) : j # l => toks[j][2] # toks[l][2]

\* C2 as claimed: whatever the length of the runs, a cluster whose letters
\* are contiguous yields at most one token per distinct letter.
C2_OneTokenPerLetterAnyRun ==
    \A k \in 1..Len(gen.ts) :
        ContiguousLetters(gen.ts[k]) => DistinctFlagLetters(EmittedFrom(k))

\* C2, amended: when every letter of the cluster occurs once or as one pair
\* of adjacent letters, the cluster yields exactly one token per distinct
\* letter, and the token of a doubled letter carries the letter twice.
C2_OneTokenPerLetter ==
    \A k \in 1..Len(gen.ts) :
        LET t == gen.ts[k]
            out == EmittedFrom(k)
        IN  (ContiguousLetters(t) /\ \A j \in 2..Len(t) : Occurrences(t, t[j]) <= 2) =>
               /\ DistinctFlagLetters(out)
               /\ \A j \in 1..Len(out) :
                     out[j] = IF Occurrences(t, out[j][2]) = 2
                              THEN <<"-", out[j][2], out[j][2]>>
                              ELSE <<"-", out[j][2]>>
               /\ FinishedToken(k) =>
                     \A l \in 2..Len(t) : \E j \in 1..Len(out) : out[j][2] = t[l]

C2_Witness ==
    /\ pc = "done"
    /\ gen.ts = << <<"-", "a", "a", "b", "c", "c">> >>
    /\ Len(emitted) = 3

\* a flag letter of a combined flag token opens an alias that is never closed
UnterminatedAlias(t) ==
    /\ IsShortToken(t)
    /\ \E j \in 2..(Len(t) - 1) :
          /\ IsLetter(t[j])
          /\ t[j + 1] = "["
          /\ \A l \in (j + 2)..Len(t) : t[l] # "]"

\* C3: when a cluster of the pattern has a flag letter followed by "[" with
\* no "]" after it, no parser is returned: construction fails, with the
\* SyntaxError yield_tokens raises for that cluster wherever the letter
\* stands in it, unless an earlier token was already rejected when added.
C3_UnterminatedAliasFails ==
    (\E k \in 1..Len(Split(pattern)) : UnterminatedAlias(Split(pattern)[k])) =>
        /\ pc # "done"
        /\ (pc = "failed" /\ err.by = "yield_tokens") =>
              /\ UnterminatedAlias(gen.ts[gen.ti])
              /\ err = Raise("SyntaxError", "yield_tokens", gen.ts[gen.ti])
        /\ (pc = "failed" /\ err.by # "yield_tokens") =>
              \E k \in gen.ti..Len(gen.ts) : UnterminatedAlias(gen.ts[k])

C3_Witness ==
    /\ pc = "failed"
    /\ err = Raise("SyntaxError", "yield_tokens", <<"-", "b", "[">>)
    /\ gen.ti = 2
    /\ Len(actions) = 3

\* _add_argument_from_token has just returned or raised for the token cur
JustAdded ==
    \/ pc = "loop" /\ emitted # <<>>
    \/ pc = "failed" /\ err.by # "yield_tokens"

LastAction == actions[Len(actions)]

\* an atomic token for a flag letter: -x, -xx, -x[alias] or -xx[alias]
FlagToken(t) == IsShortToken(t) /\ IsLetter(t[2])

Brackets(t) == {j \in 1..Len(t) : t[j] = "["}

BeforeBracket(t) ==
    IF Brackets(t) = {} THEN t ELSE SubSeq(t, 1, MinOf(Brackets(t)) - 1)

\* the text between the first "[" and the closing "]" that ends the token
AliasOf(t) ==
    IF Brackets(t) = {} THEN <<>> ELSE SubSeq(t, MinOf(Brackets(t)) + 1, Len(t) - 1)

Doubled(t) == Len(t) = 3 /\ t[2] = t[3]

\* C4: for an atomic flag token, _add_argument_from_token registers exactly
\* one argument under the option dash+letter: a counting flag with default 0
\* if and only if the part before "[" is a dash and two identical letters,
\* otherwise a boolean flag with default false; a non-empty alias is a second
\* option string "--alias" of the same argument. The only way it registers
\* nothing is the engine refusing an option string that is already taken.
C4_FlagKindAndAlias ==
    (JustAdded /\ FlagToken(cur)) =>
        IF pc = "loop"
        THEN /\ Len(actions) = Len(emitted) + 1
             /\ LastAction.opts[1] = <<"-", cur[2]>>
             /\ LastAction.opts[2] = IF AliasOf(cur) # <<>>
                                     THEN <<"-", "-">> \o AliasOf(cur) ELSE <<>>
             /\ LastAction.action = IF Doubled(BeforeBracket(cur))
                                    THEN "count" ELSE "store_true"
             /\ LastAction.default = IF Doubled(BeforeBracket(cur))
                                     THEN "0" ELSE "False"
        ELSE /\ err.type = "ArgumentError"
             /\ Len(actions) = Len(emitted)
             /\ \/ <<"-", cur[2]>> \in OptionStrings(actions)
                \/ <<"-", "-">> \o AliasOf(cur) \in OptionStrings(actions)

C4_Witness ==
    /\ pc = "loop"
    /\ cur = <<"-", "a", "a", "[", "b", "]">>
    /\ Len(actions) = 2
    /\ LastAction.action = "count"
    /\ LastAction.opts = << <<"-", "a">>, <<"-", "-", "b">> >>

Dots == <<".", ".", ".">>

HasDots(t) == FindStr(t, Dots) # -1

BeforeDots(t) == Slice(t, 0, FindStr(t, Dots))

AfterDots(t) == Slice(t, FindStr(t, Dots) + 3, Len(t))

IsNumeral(s) == s # <<>> /\ \A j \in 1..Len(s) : s[j] \in DOMAIN DigitVal

\* C5 as claimed: for a long option or positional containing "...", the
\* text after "..." decides the arity: none gives "+", "?" gives "*", an
\* unsigned numeral N gives N, and anything else, a signed number included,
\* raises SyntaxError naming that text; the name is the text before "...".
C5_ArityFromSuffix ==
    (JustAdded /\ locals.branch = "value" /\ HasDots(cur)) =>
        IF AfterDots(cur) = <<>> \/ AfterDots(cur) = <<"?">> \/ IsNumeral(AfterDots(cur))
        THEN /\ err.by # "determine_nargs"
             /\ locals.token1 = BeforeDots(cur)
             /\ locals.nargs = IF AfterDots(cur) = <<>> THEN NargsPlus
                               ELSE IF AfterDots(cur) = <<"?">> THEN NargsStar
                               ELSE NargsInt(DigitsValue(AfterDots(cur)))
        ELSE /\ pc = "failed"
             /\ err = Raise("SyntaxError", "determine_nargs", AfterDots(cur))

Colons(t) == {j \in 1..Len(t) : t[j] = ":"}

AfterColon(t) == SubSeq(t, MinOf(Colons(t)) + 1, Len(t))

BeforeColon(t) == SubSeq(t, 1, MinOf(Colons(t)) - 1)

\* determine_type has been called (determine_nargs returned)
TypeDetermined == JustAdded /\ locals.branch = "value" /\ err.by # "determine_nargs"

TypeOfName ==
    (<<"i", "n", "t">> :> "int") @@
    (<<"b", "o", "o", "l">> :> "bool") @@
    (<<"s", "t", "r">> :> "str") @@
    (<<"f", "l", "o", "a", "t">> :> "float") @@
    (<<"r", "f", "i", "l", "e">> :> "rfile") @@
    (<<"w", "f", "i", "l", "e">> :> "wfile")

\* C6 as claimed: determine_type succeeds exactly for the names int, bool,
\* str, string, float, rfile and wfile.
C6_SevenTypeNames ==
    (TypeDetermined /\ Colons(locals.token1) # {}) =>
        (err.by # "determine_type" <=>
            AfterColon(locals.token1) \in
                DOMAIN TypeOfName \cup {<<"s", "t", "r", "i", "n", "g">>})

\* C6, amended: determine_type succeeds exactly for the names int, bool, str,
\* float, rfile and wfile, returning the text before ":" and the type; every
\* other name, "string" included, raises SyntaxError naming it; a token with
\* no ":" is returned unchanged and untyped.
C6_SixTypeNames ==
    TypeDetermined =>
        IF Colons(locals.token1) = {}
        THEN /\ err.by # "determine_type"
             /\ locals.token = locals.token1
             /\ locals.typ = "None"
        ELSE IF AfterColon(locals.token1) \in DOMAIN TypeOfName
        THEN /\ err.by # "determine_type"
             /\ locals.token = BeforeColon(locals.token1)
             /\ locals.typ = TypeOfName[AfterColon(locals.token1)]
        ELSE /\ pc = "failed"
             /\ err = Raise("SyntaxError", "determine_type", AfterColon(locals.token1))

C6_Witness ==
    /\ pc = "failed"
    /\ cur = <<"x", ":", "s", "t", "r", "i", "n", "g">>
    /\ err = Raise("SyntaxError", "determine_type", <<"s", "t", "r", "i", "n", "g">>)

\* the arity suffixes of the grammar and the arity each denotes
ArityOfSuffix ==
    (Dots :> NargsPlus) @@ (Dots \o <<"?">> :> NargsStar) @@
    (Dots \o <<"2">> :> NargsInt(2))

\* a positional registered under the name x with the given arity and type
IsPositionalX(a, nargs, typ) ==
    /\ a.opts = << <<>>, <<>> >>
    /\ a.dest = <<"x">>
    /\ a.action = "store"
    /\ a.nargs = nargs
    /\ a.type = typ
    /\ a.default = "None"

\* C7 as claimed: a positional written name, arity suffix, type suffix,
\* optional marker compiles to one positional with that name, arity and type.
C7_ArityThenTypeCompiles ==
    \A a \in DOMAIN ArityOfSuffix, n \in DOMAIN TypeOfName, o \in {<<>>, <<"?">>} :
        (JustAdded /\ cur = <<"x">> \o a \o <<":">> \o n \o o) =>
            /\ pc = "loop"
            /\ IsPositionalX(LastAction, ArityOfSuffix[a], TypeOfName[n])

\* C7, amended: a positional written name, type suffix, arity suffix
\* compiles to one positional with that name, arity and type; written name,
\* arity suffix, type suffix it registers nothing and construction fails
\* with the SyntaxError determine_nargs raises for the text after "...".
C7_TypeThenArityCompiles ==
    \A a \in DOMAIN ArityOfSuffix, n \in DOMAIN TypeOfName :
        /\ (JustAdded /\ cur = <<"x", ":">> \o n \o a) =>
              /\ pc = "loop"
              /\ Len(actions) = Len(emitted) + 1
              /\ IsPositionalX(LastAction, ArityOfSuffix[a], TypeOfName[n])
        /\ \A o \in {<<>>, <<"?">>} :
              (JustAdded /\ cur = <<"x">> \o a \o <<":">> \o n \o o) =>
                  /\ pc = "failed"
                  /\ Len(actions) = Len(emitted)
                  /\ err = Raise("SyntaxError", "determine_nargs", AfterDots(cur))

C7_Witness ==
    /\ pc = "failed"
    /\ cur = <<"x", ".", ".", ".", "2", ":", "i", "n", "t">>
    /\ err = Raise("SyntaxError", "determine_nargs", <<"2", ":", "i", "n", "t">>)
    /\ actions = <<HelpAction>>

\* what may follow name:type, and the arity it denotes
ArityOfTail ==
    (<<>> :> NargsNone) @@ (<<"?">> :> NargsOpt) @@ (Dots :> NargsPlus) @@
    (Dots \o <<"?">> :> NargsStar) @@ (Dots \o <<"0">> :> NargsInt(0)) @@
    (Dots \o <<"2">> :> NargsInt(2))

\* C8 as claimed: name:type followed by at most one of "...", "...?", "...N"
\* (N a non-negative integer) or "?" registers one positional named name
\* with the resolved type and the arity the suffix denotes.
C8_TypedPositionalAnyN ==
    \A n \in DOMAIN TypeOfName, s \in DOMAIN ArityOfTail :
        (JustAdded /\ cur = <<"x", ":">> \o n \o s) =>
            /\ pc = "loop"
            /\ IsPositionalX(LastAction, ArityOfTail[s], TypeOfName[n])

\* C8, amended: the same for N >= 1, the positional being required unless
\* the suffix is "?"; for "...0" the engine refuses the argument with
\* ValueError and nothing is registered.
C8_TypedPositional ==
    \A n \in DOMAIN TypeOfName, s \in DOMAIN ArityOfTail :
        (JustAdded /\ cur = <<"x", ":">> \o n \o s) =>
            IF ArityOfTail[s] # NargsInt(0)
            THEN /\ pc = "loop"
                 /\ Len(actions) = Len(emitted) + 1
                 /\ IsPositionalX(LastAction, ArityOfTail[s], TypeOfName[n])
                 /\ LastAction.required = (s # <<"?">>)
            ELSE /\ pc = "failed"
                 /\ Len(actions) = Len(emitted)
                 /\ err.type = "ValueError"
                 /\ err.by = "add_argument"

C8_Witness ==
    /\ pc = "loop"
    /\ cur = <<"x", ":", "i", "n", "t", "?">>
    /\ IsPositionalX(LastAction, NargsOpt, "int")
    /\ ~LastAction.required

\* a "--" token with neither "..." nor ":" in it
PlainLong(t) == ~HasDots(t) /\ Colons(t) = {}

\* C9: a token starting with "--" that compiles is a boolean flag with
\* default false if and only if it has neither a "..." arity suffix nor a
\* ":type" suffix; with either one it is a value-taking option with the
\* resolved arity and type. A plain "--name" is refused only when the engine
\* already has that option string.
C9_LongFlagOrOption ==
    (JustAdded /\ locals.branch = "value" /\ StartsWith(cur, <<"-", "-">>)) =>
        /\ pc = "loop" =>
              /\ Len(actions) = Len(emitted) + 1
              /\ LastAction.opts[1] = locals.token
              /\ LastAction.action = "store_true" <=> PlainLong(cur)
              /\ PlainLong(cur) => LastAction.default = "False"
              /\ ~PlainLong(cur) =>
                    /\ LastAction.action = "store"
                    /\ LastAction.nargs = locals.nargs
                    /\ LastAction.type = locals.typ
                    /\ HasDots(cur) => locals.nargs.kind \in {"+", "*", "int"}
                    /\ ~HasDots(cur) => locals.typ = TypeOfName[AfterColon(locals.token1)]
        /\ (PlainLong(cur) /\ pc = "failed") =>
              \/ err.type = "ArgumentError"
              \/ err.type = "ValueError" /\ LStrip(locals.token, "-") = <<>>

C9_Witness ==
    /\ pc = "loop"
    /\ cur = <<"-", "-", "x", ":", "i", "n", "t">>
    /\ LastAction.action = "store"
    /\ LastAction.type = "int"
    /\ LastAction.opts[1] = <<"-", "-", "x">>

\* C10 as claimed: a parser that is returned has no two arguments with the
\* same canonical name (dest).
C10_UniqueCanonicalNames ==
    pc = "done" =>
        \A j, l \in 1..Len(actions) : j # l => actions[j].dest # actions[l].dest

(***************************************************************************)
(* Matching: parse_args and the Namespace it returns.                      *)
(***************************************************************************)
\* parse_args has been called and has returned or raised
Called == call.engine # "unset"

\* C11: a match that succeeds returns its result in either mode.  A match
\* that fails (the engine raises SystemExit) ends the call with that
\* SystemExit when exit_on_error is True, or is not given and args is None;
\* it ends the call with ValueError, and no SystemExit leaves it, when
\* exit_on_error is False, or is not given and args are supplied.
C11_FailureMode ==
    Called =>
        /\ call.engine = "returns" => pc \notin {"exited", "raised"} /\ err.by # "parse_args"
        /\ call.engine = "SystemExit" =>
            /\ pc \in {"exited", "raised"}
            /\ err = Raise(IF pc = "exited" THEN "SystemExit" ELSE "ValueError",
                           "parse_args", <<>>)
            /\ call.exit_on_error = "None" => (pc = "exited" <=> call.args = "None")
            /\ call.exit_on_error = "True" => pc = "exited"
            /\ call.exit_on_error = "False" => pc = "raised"

\* parse_args("x", args) with args that do not match raises ValueError
C11_Witness ==
    /\ pattern = <<"x">>
    /\ call = [args |-> "given", exit_on_error |-> "None", engine |-> "SystemExit"]
    /\ pc = "raised"
    /\ err.type = "ValueError"

\* Namespace.__exit__ has ended, by returning or by an exception
Left == pc \in {"closed", "broken"}

\* the calls of __exit__ made on the value v
ExitsOf(v) == {j \in 1..Len(exits) : exits[j].val = v}

\* C12 as claimed: when the scope of a Namespace has been left, every value
\* it holds that has an __exit__, stored by the engine or by the with block,
\* has had it called exactly once, with the arguments of the scope's exit; no
\* call is made on a value without __exit__; and the scope's __exit__
\* returns True if and only if one of these calls returned True.
C12_ReleasesEveryValueOnce ==
    Left =>
        /\ \A k \in 1..Len(ns) :
            IF ns[k].val.exit = "absent"
            THEN ExitsOf(ns[k].val) = {}
            ELSE /\ Cardinality(ExitsOf(ns[k].val)) = 1
                 /\ \A j \in ExitsOf(ns[k].val) : exits[j].args = leave.exc
        /\ pc = "closed" =>
            (leave.signal = "True" <=> \E j \in 1..Len(exits) : exits[j].val.exit = "True")

(***************************************************************************)
(* Order of the units of a cluster.                                        *)
(***************************************************************************)
\* the ways to cut s into units
RECURSIVE UnitsOf(_)
UnitsOf(s) ==
    IF s = <<>> THEN {<<>>}
    ELSE UNION {{<<SubSeq(s, 1, k)>> \o r : r \in UnitsOf(SubSeq(s, k + 1, Len(s)))} :
                    k \in {k \in 1..Len(s) : SubSeq(s, 1, k) \in Units}}

\* the pattern as one cluster of units over pairwise distinct letters
UnitsOfPattern ==
    IF Len(pattern) >= 2 /\ pattern[1] = "-"
    THEN {us \in UnitsOf(Tail(pattern)) :
            \A j, l \in 1..Len(us) : j # l => us[j][1] # us[l][1]}
    ELSE {}

\* the patterns with the same units in another order
Reordered(us) ==
    {<<"-">> \o Concat([j \in 1..Len(us) |-> us[f[j]]]) : f \in Permutations(1..Len(us))}

SpecSet(reg) == {reg[k] : k \in 1..Len(reg)}

\* inputs made of the option strings of the flags
FlagInputs(reg) ==
    SeqsUpTo(OptionStrings(reg) \ OptionStrings(<<HelpAction>>), 0, MaxInput)

\* C13 as claimed: when the pattern is one cluster of units over pairwise
\* distinct letters, the pattern with its units in any other order is
\* accepted exactly if this one is, registers the same set of arguments, and
\* gives the same result values for every input.
C13_ClusterOrderInvariance ==
    pc \in {"done", "failed"} =>
        \A us \in UnitsOfPattern : \A q \in Reordered(us) :
            LET r == ArgumentParser(q)
            IN  /\ r.err = NoError <=> pc = "done"
                /\ pc = "done" =>
                    /\ SpecSet(r.actions) = SpecSet(actions)
                    /\ \A input \in FlagInputs(actions) :
                        Match(r.actions, input) = Match(actions, input)

(***************************************************************************)
(* sys.stderr around parse_args.                                           *)
(***************************************************************************)
\* the call is one that turns the engine's SystemExit into ValueError
Recoverable ==
    \/ call.exit_on_error = "False"
    \/ call.exit_on_error = "None" /\ call.args = "given"

\* C14 as claimed: once parse_args has been called in recoverable mode and
\* has returned its result or raised ValueError, sys.stderr is the stream
\* that was installed before the call.
C14_StderrRestored ==
    Called /\ Recoverable => stderr = "installed"

====
